---- MODULE Spec2Model ----
(***************************************************************************)
(* Model of the tick-based calendar engine (chrono/datetime.h) and of the  *)
(* string helpers joinStrings, splitString and startsWith                  *)
(* (conversion/stringconversion.h).                                        *)
(*                                                                         *)
(* A tick count does not fit a 32-bit integer, so a tick count is kept in  *)
(* mixed radix as a record [d, ms, t] that stands for                      *)
(*     d * 864,000,000,000 + ms * 10,000 + t     ticks,                    *)
(* with 0 <= ms < MsPerDay and 0 <= t < m_ticksPerMillisecond; d carries   *)
(* the sign.  The arithmetic below is exact, and the 64-bit width of       *)
(* DateTime::m_ticks (uint64) and TimeSpan::m_ticks (int64) is kept by     *)
(* Wrap64 and ToInt64.                                                     *)
(***************************************************************************)
EXTENDS Integers, Sequences, FiniteSets, TLC

VARIABLES pc, args, m_ticks, result

vars == <<pc, args, m_ticks, result>>

(***************************************************************************)
(* Bounds of the model.                                                    *)
(***************************************************************************)
\* years within YearWindow of an anchor year are drawn as fromDate inputs
YearWindow == 1
\* days 0 .. MaxDay are drawn as fromDate inputs (31 is the longest month)
MaxDay == 32
\* months 0 .. MaxMonth are drawn as fromDate inputs
MaxMonth == 13
\* hours 24 .. MaxHour are drawn, beside 0 and 23, as fromDateAndTime inputs
MaxHour == 25
\* TimeSpans of 0 .. MaxSpanDays days, and their negations, are drawn
MaxSpanDays == 2
\* strings of at most MaxStrLen characters are drawn for startsWith
MaxStrLen == 3
\* containers of at most MaxStrings strings are drawn for joinStrings
MaxStrings == 2
\* strings of at most MaxSplitLen characters are drawn for splitString
MaxSplitLen == 5
\* maxParts is drawn from -2 .. MaxParts
MaxParts == 3

(***************************************************************************)
(* Tick arithmetic.                                                        *)
(***************************************************************************)
m_ticksPerMillisecond == 10000
MsPerDay == 86400000
MsPerHour == 3600000
MsPerMinute == 60000
MsPerSecond == 1000

Tick(dd, mm, tt) == [d |-> dd, ms |-> mm, t |-> tt]

\* carries t into ms and ms into d (\div is floor division, % is non-negative)
Norm(dd, mm, tt) ==
    LET m2 == mm + (tt \div m_ticksPerMillisecond)
    IN  Tick(dd + (m2 \div MsPerDay), m2 % MsPerDay, tt % m_ticksPerMillisecond)

Zero == Tick(0, 0, 0)
TAdd(a, b) == Norm(a.d + b.d, a.ms + b.ms, a.t + b.t)
TNeg(a) == Norm(-a.d, -a.ms, -a.t)
TSub(a, b) == TAdd(a, TNeg(b))
TLess(a, b) ==
    \/ a.d < b.d
    \/ a.d = b.d /\ a.ms < b.ms
    \/ a.d = b.d /\ a.ms = b.ms /\ a.t < b.t
TNegative(a) == a.d < 0

\* 2^64 = 18446744073709551616 and 2^63 = 9223372036854775808 ticks
Two64 == Tick(21350398, 20170955, 1616)
Two63 == Tick(10675199, 10085477, 5808)

\* the value of a tick count in uint64 (one wrap suffices for a sum of two)
Wrap64(v) ==
    IF TNegative(v) THEN TAdd(v, Two64)
    ELSE IF TLess(v, Two64) THEN v
    ELSE TSub(v, Two64)

\* a uint64 read as int64 (two's complement)
ToInt64(u) == IF TLess(u, Two63) THEN u ELSE TSub(u, Two64)

\* TimeSpan::m_ticksPerDay ticks, n times
Days(n) == Tick(n, 0, 0)

(***************************************************************************)
(* DateTime: tables and calendar conversion.                               *)
(***************************************************************************)
m_daysPerYear == 365
m_daysPer4Years == 1461
m_daysPer100Years == 36524
m_daysPer400Years == 146097
m_daysTo10000 == 3652059
m_daysToMonth365 == <<0, 31, 59, 90, 120, 151, 181, 212, 243, 273, 304, 334, 365>>
m_daysToMonth366 == <<0, 31, 60, 91, 121, 152, 182, 213, 244, 274, 305, 335, 366>>
m_daysInMonth365 == <<31, 28, 31, 30, 31, 30, 31, 31, 30, 31, 30, 31>>
m_daysInMonth366 == <<31, 29, 31, 30, 31, 30, 31, 31, 30, 31, 30, 31>>
MinYear == 1
MaxYear == 9999

\* isLeapYear without the 400-year rule
isLeapYear_no400(yr) ==
    IF yr % 4 # 0 THEN FALSE
    ELSE IF yr % 100 = 0 THEN FALSE ELSE TRUE

isLeapYear(yr) ==
    IF yr % 4 # 0 THEN FALSE
    ELSE IF yr % 100 = 0 THEN yr % 400 = 0 ELSE TRUE

\* the tables are indexed from 1 here, from 0 in the source
daysInMonth(yr, mon) ==
    IF mon >= 1 /\ mon <= 12
    THEN (IF isLeapYear(yr) THEN m_daysInMonth366[mon] ELSE m_daysInMonth365[mon])
    ELSE 0

\* invalid input gives tick count 0; otherwise the completed 400-, 100-, 4- and
\* 1-year blocks of year - 1, the days to the month and day - 1, in days
dateToTicks(yr, mon, dy) ==
    IF /\ yr >= MinYear /\ yr <= MaxYear
       /\ mon >= 1 /\ mon <= 12
       /\ dy >= 1 /\ dy <= daysInMonth(yr, mon)
    THEN LET passedYears == yr - 1
             full400 == passedYears \div 400
             rest400 == passedYears % 400
             full100 == rest400 \div 100
             rest100 == rest400 % 100
             full4 == rest100 \div 4
             full1 == rest100 % 4
             daysToMonth == IF isLeapYear(yr) THEN m_daysToMonth366 ELSE m_daysToMonth365
         IN  Days(full400 * m_daysPer400Years + full100 * m_daysPer100Years
                  + full4 * m_daysPer4Years + full1 * m_daysPerYear
                  + daysToMonth[mon] + (dy - 1))
    ELSE Zero

\* plain summation of the components; millisecond is a whole number here
timeToTicks(hr, min, sec, msec) ==
    Wrap64(Norm(0, hr * MsPerHour + min * MsPerMinute + sec * MsPerSecond + msec, 0))

RECURSIVE MonthOf(_, _, _)
MonthOf(restDays, daysToMonth, mon) ==
    IF restDays >= daysToMonth[mon + 1] THEN MonthOf(restDays, daysToMonth, mon + 1) ELSE mon

\* walks the 400/100/4/1-year blocks of the day count back to year, day of
\* year, month and day
getDatePart(ticks, part) ==
    LET fullDays == ticks.d
        full400YearBlocks == fullDays \div m_daysPer400Years
        daysMinusFull400YearBlocks == fullDays - full400YearBlocks * m_daysPer400Years
        n100 == daysMinusFull400YearBlocks \div m_daysPer100Years
        full100YearBlocks == IF n100 = 4 THEN 3 ELSE n100
        daysMinusFull100YearBlocks ==
            daysMinusFull400YearBlocks - full100YearBlocks * m_daysPer100Years
        full4YearBlocks == daysMinusFull100YearBlocks \div m_daysPer4Years
        daysMinusFull4YearBlocks ==
            daysMinusFull100YearBlocks - full4YearBlocks * m_daysPer4Years
        n1 == daysMinusFull4YearBlocks \div m_daysPerYear
        full1YearBlocks == IF n1 = 4 THEN 3 ELSE n1
        restDays == daysMinusFull4YearBlocks - full1YearBlocks * m_daysPerYear
        leap == full1YearBlocks = 3 /\ (full4YearBlocks # 24 \/ full100YearBlocks = 3)
        daysToMonth == IF leap THEN m_daysToMonth366 ELSE m_daysToMonth365
        mon == MonthOf(restDays, daysToMonth, 1)
    IN  CASE part = "Year" ->
               full400YearBlocks * 400 + full100YearBlocks * 100
               + full4YearBlocks * 4 + full1YearBlocks + 1
          [] part = "DayOfYear" -> restDays + 1
          [] part = "Month" -> mon
          [] part = "Day" -> restDays - daysToMonth[mon] + 1
          [] OTHER -> 0

(***************************************************************************)
(* DateTime: the inline members of datetime.h.  A DateTime is its m_ticks. *)
(***************************************************************************)
DateTime(ticks) == ticks
NullDateTime == Zero

\* fromDate that forgets the day
fromDate_firstOfMonth(yr, mon, dy) == DateTime(dateToTicks(yr, mon, 1))

fromDate(yr, mon, dy) == DateTime(dateToTicks(yr, mon, dy))

fromTime(hr, min, sec, msec) == DateTime(timeToTicks(hr, min, sec, msec))

\* fromDateAndTime without the test of the date's ticks
fromDateAndTime_unchecked(yr, mon, dy, hr, min, sec, msec) ==
    DateTime(Wrap64(TAdd(dateToTicks(yr, mon, dy), timeToTicks(hr, min, sec, msec))))

fromDateAndTime(yr, mon, dy, hr, min, sec, msec) ==
    LET ticks == dateToTicks(yr, mon, dy)
    IN  IF ticks # Zero
        THEN DateTime(Wrap64(TAdd(ticks, timeToTicks(hr, min, sec, msec))))
        ELSE NullDateTime

totalTicks(dt) == dt
year(dt) == getDatePart(dt, "Year")
month(dt) == getDatePart(dt, "Month")

\* day() asking for the day of the year
day_ofYear(dt) == getDatePart(dt, "DayOfYear")

day(dt) == getDatePart(dt, "Day")
dayOfYear(dt) == getDatePart(dt, "DayOfYear")

\* the enumerators of DayOfWeek, Monday = 0 .. Sunday = 6
DayOfWeek == <<"Monday", "Tuesday", "Wednesday", "Thursday", "Friday", "Saturday", "Sunday">>

\* dayOfWeek anchored one day late
dayOfWeek_shifted(dt) == DayOfWeek[((dt.d + 1) % 7) + 1]

dayOfWeek(dt) == DayOfWeek[(dt.d % 7) + 1]

isNull(dt) == dt = Zero

\* the uint64 image of a TimeSpan's int64 tick count
U64(span) == Wrap64(span)

\* operator+ that collapses a sum at or beyond year 10000 to null
operator_plus_clamped(dt, timeSpan) ==
    LET sum == Wrap64(TAdd(dt, U64(timeSpan)))
    IN  IF TLess(sum, Days(m_daysTo10000)) THEN DateTime(sum) ELSE NullDateTime

\* DateTime + TimeSpan
operator_plus(dt, timeSpan) == DateTime(Wrap64(TAdd(dt, U64(timeSpan))))
\* DateTime - TimeSpan
operator_minus(dt, timeSpan) == DateTime(Wrap64(TSub(dt, U64(timeSpan))))
\* DateTime - DateTime, a TimeSpan
operator_minus_DateTime(dt, other) == ToInt64(Wrap64(TSub(dt, other)))
\* DateTime += TimeSpan and DateTime -= TimeSpan: the new m_ticks
operator_plus_assign(dt, timeSpan) == Wrap64(TAdd(dt, U64(timeSpan)))
operator_minus_assign(dt, timeSpan) == Wrap64(TSub(dt, U64(timeSpan)))

\* TimeSpan::fromDays: a TimeSpan of n whole days
TimeSpan_fromDays(n) == Days(n)

(***************************************************************************)
(* Construction from a date, the accessors, and a shift by one day.        *)
(***************************************************************************)
AnchorYears == {1, 4, 100, 400, 1600, 1900, 2000, 2023, 9999}
Years ==
    {y \in UNION {(a - YearWindow)..(a + YearWindow) : a \in AnchorYears} :
        y >= 0 /\ y <= MaxYear + 1}
Months == 0..MaxMonth
DaysOfMonth == 0..MaxDay

NoResult == [op |-> "none"]

InitDate ==
    /\ pc = "date_start"
    /\ args \in [year : Years, month : Months, day : DaysOfMonth]
    /\ m_ticks = NullDateTime
    /\ result = NoResult

FromDate ==
    /\ pc = "date_start"
    /\ m_ticks' = fromDate(args.year, args.month, args.day)
    /\ pc' = "date_constructed"
    /\ UNCHANGED <<args, result>>

ReadDate ==
    /\ pc = "date_constructed"
    /\ result' = [op |-> "read",
                  totalTicks |-> totalTicks(m_ticks),
                  year |-> year(m_ticks),
                  month |-> month(m_ticks),
                  day |-> day(m_ticks),
                  dayOfYear |-> dayOfYear(m_ticks),
                  dayOfWeek |-> dayOfWeek(m_ticks),
                  isNull |-> isNull(m_ticks)]
    /\ pc' = "date_read"
    /\ UNCHANGED <<args, m_ticks>>

PlusOneDay ==
    /\ pc = "date_read"
    /\ m_ticks' = operator_plus(m_ticks, TimeSpan_fromDays(1))
    /\ pc' = "date_shifted"
    /\ UNCHANGED <<args, result>>

NextDate == FromDate \/ ReadDate \/ PlusOneDay

SpecDate == InitDate /\ [][NextDate]_vars

\* the date drawn is a date of the calendar
ValidDate ==
    /\ args.year >= MinYear /\ args.year <= MaxYear
    /\ args.month >= 1 /\ args.month <= 12
    /\ args.day >= 1 /\ args.day <= daysInMonth(args.year, args.month)

\* C1: for every year 1..9999, month 1..12 and day 1..daysInMonth(year, month),
\* the epoch date (1,1,1) apart, year(), month() and day() of
\* fromDate(year, month, day) give back year, month and day.
C1_RoundTrip ==
    (pc = "date_read" /\ ValidDate /\ <<args.year, args.month, args.day>> # <<1, 1, 1>>)
        => /\ result.year = args.year
           /\ result.month = args.month
           /\ result.day = args.day

\* a leap day has been constructed and read back
C1_Witness ==
    /\ pc = "date_read"
    /\ args.year = 2000 /\ args.month = 2 /\ args.day = 29
    /\ result.year = 2000 /\ result.month = 2 /\ result.day = 29
    /\ result.totalTicks # Zero

\* C2: fromDate with a month outside 1..12 or a day outside
\* 1..daysInMonth(year, month) returns the null instant: totalTicks() is 0 and
\* isNull() is true; no error is signalled (construction always completes).
C2_InvalidDateIsNull ==
    /\ (pc = "date_constructed"
        /\ (args.month < 1 \/ args.month > 12
            \/ args.day < 1 \/ args.day > daysInMonth(args.year, args.month)))
        => totalTicks(m_ticks) = Zero
    /\ (pc = "date_read"
        /\ (args.month < 1 \/ args.month > 12
            \/ args.day < 1 \/ args.day > daysInMonth(args.year, args.month)))
        => (result.totalTicks = Zero /\ result.isNull)

\* month 13 of a valid year has been constructed and read
C2_Witness ==
    /\ pc = "date_read"
    /\ args.year = 2023 /\ args.month = 13 /\ args.day = 1
    /\ result.isNull

\* the weekday by Sakamoto's rule, brought from Sunday = 0 to Monday = 0
SakamotoOffset == <<0, 3, 2, 5, 0, 3, 5, 1, 4, 6, 2, 4>>
TrueWeekday(yr, mon, dy) ==
    LET y == IF mon < 3 THEN yr - 1 ELSE yr
        sunday0 == (y + y \div 4 - y \div 100 + y \div 400 + SakamotoOffset[mon] + dy) % 7
    IN  DayOfWeek[((sunday0 + 6) % 7) + 1]

WeekdayIndex(name) == CHOOSE i \in 1..7 : DayOfWeek[i] = name

\* C6: for every valid date dayOfWeek() of fromDate(year, month, day) is the
\* proleptic Gregorian weekday of the date (1-1-1 a Monday, 2000-01-01 a
\* Saturday), and adding a TimeSpan of one day moves dayOfWeek() on by one
\* position, Sunday being followed by Monday.
C6_DayOfWeek ==
    /\ (pc = "date_read" /\ ValidDate)
        => /\ result.dayOfWeek = TrueWeekday(args.year, args.month, args.day)
           /\ (<<args.year, args.month, args.day>> = <<1, 1, 1>>
                  => result.dayOfWeek = "Monday")
           /\ (<<args.year, args.month, args.day>> = <<2000, 1, 1>>
                  => result.dayOfWeek = "Saturday")
    /\ (pc = "date_shifted" /\ ValidDate)
        => WeekdayIndex(dayOfWeek(m_ticks)) = (WeekdayIndex(result.dayOfWeek) % 7) + 1

\* a Sunday has been shifted to the Monday after it
C6_Witness ==
    /\ pc = "date_shifted"
    /\ ValidDate
    /\ args.year = 2000 /\ args.month = 1 /\ args.day = 2
    /\ result.dayOfWeek = "Sunday"
    /\ dayOfWeek(m_ticks) = "Monday"

(***************************************************************************)
(* The span between two consecutive first days of January.                 *)
(***************************************************************************)
InitYear ==
    /\ pc = "year_start"
    /\ args \in [year : MinYear..(MaxYear - 1)]
    /\ m_ticks = NullDateTime
    /\ result = NoResult

\* the receiver is the later date, the earlier one is kept as the operand
ConstructNewYears ==
    /\ pc = "year_start"
    /\ m_ticks' = fromDate(args.year + 1, 1, 1)
    /\ result' = [op |-> "other", other |-> fromDate(args.year, 1, 1)]
    /\ pc' = "year_constructed"
    /\ UNCHANGED args

SubtractNewYears ==
    /\ pc = "year_constructed"
    /\ result' = [op |-> "-",
                  span |-> operator_minus_DateTime(m_ticks, result.other),
                  isLeapYear |-> isLeapYear(args.year)]
    /\ pc' = "year_done"
    /\ UNCHANGED <<args, m_ticks>>

NextYear == ConstructNewYears \/ SubtractNewYears

SpecYear == InitYear /\ [][NextYear]_vars

\* the leap year rule as the calendar states it
LeapRule(yr) == yr % 4 = 0 /\ (yr % 100 # 0 \/ yr % 400 = 0)

\* C5: for every year y in 1..9998, fromDate(y + 1, 1, 1) - fromDate(y, 1, 1) is
\* a TimeSpan of exactly 366 days when y is divisible by 4 and (not by 100 or
\* by 400), of exactly 365 days otherwise, and isLeapYear(y) says the same
\* (1900 no, 2000 yes, 2024 yes, 2023 no).
C5_YearLength ==
    pc = "year_done"
        => /\ result.span = (IF LeapRule(args.year) THEN Tick(366, 0, 0) ELSE Tick(365, 0, 0))
           /\ result.isLeapYear = LeapRule(args.year)
           /\ (args.year \in {2000, 2024} => result.isLeapYear)
           /\ (args.year \in {1900, 2023} => ~result.isLeapYear)

\* the year 2000, a leap year by the 400-year rule, has been measured
C5_Witness ==
    /\ pc = "year_done"
    /\ args.year = 2000
    /\ result.span = Tick(366, 0, 0)
    /\ result.isLeapYear

(***************************************************************************)
(* Construction from a date and a time.                                    *)
(***************************************************************************)
DateTimeYears == {0, 1, 2024}
DateTimeMonths == {1, 2, 13}
DateTimeDays == {0, 1, 29, 30}
Hours == {0, 23} \cup (24..MaxHour)
Minutes == {0, 59}
Seconds == {0, 59}
Milliseconds == {0, 999}

InitDateTime ==
    /\ pc = "datetime_start"
    /\ args \in [year : DateTimeYears, month : DateTimeMonths, day : DateTimeDays,
                 hour : Hours, minute : Minutes, second : Seconds,
                 millisecond : Milliseconds]
    /\ m_ticks = NullDateTime
    /\ result = NoResult

FromDateAndTime ==
    /\ pc = "datetime_start"
    /\ m_ticks' = fromDateAndTime(args.year, args.month, args.day,
                                  args.hour, args.minute, args.second, args.millisecond)
    /\ pc' = "datetime_constructed"
    /\ UNCHANGED <<args, result>>

ReadDateTime ==
    /\ pc = "datetime_constructed"
    /\ result' = [op |-> "read", totalTicks |-> totalTicks(m_ticks), isNull |-> isNull(m_ticks)]
    /\ pc' = "datetime_read"
    /\ UNCHANGED <<args, m_ticks>>

NextDateTime == FromDateAndTime \/ ReadDateTime

SpecDateTime == InitDateTime /\ [][NextDateTime]_vars

\* C3: fromDateAndTime returns the null instant whenever dateToTicks of the
\* date is 0, whatever the time (every invalid date, and the epoch date with a
\* time that is not 0); otherwise its tick count is dateToTicks of the date
\* plus timeToTicks of the time.
C3_DateAndTime ==
    pc = "datetime_read"
        => LET date == dateToTicks(args.year, args.month, args.day)
               time == timeToTicks(args.hour, args.minute, args.second, args.millisecond)
           IN  IF date = Zero
               THEN result.totalTicks = Zero /\ result.isNull
               ELSE result.totalTicks = TAdd(date, time)

\* the epoch date with a time of day that is not 0 has given the null instant
C3_Witness ==
    /\ pc = "datetime_read"
    /\ args.year = 1 /\ args.month = 1 /\ args.day = 1
    /\ args.hour = 23 /\ args.millisecond = 999
    /\ result.isNull

(***************************************************************************)
(* DateTime + TimeSpan, DateTime - TimeSpan, += and -=.                    *)
(***************************************************************************)
\* the largest and the smallest int64
Int64Max == TSub(Two63, Tick(0, 0, 1))
Int64Min == TNeg(Two63)
\* the largest uint64
UInt64Max == TSub(Two64, Tick(0, 0, 1))

DateTimes ==
    {NullDateTime, DateTime(Tick(0, 0, 1)), DateTime(UInt64Max),
     fromDate(1, 1, 2), fromDate(2024, 2, 29),
     fromDateAndTime(9999, 12, 31, 23, 59, 59, 999)}

TimeSpans ==
    LET positive == {Tick(0, 0, 1), Tick(0, 1, 0), Days(m_daysTo10000), Int64Max}
                        \cup {TimeSpan_fromDays(k) : k \in 0..MaxSpanDays}
    IN  positive \cup {TNeg(ts) : ts \in positive} \cup {Int64Min}

InitArith ==
    /\ pc = "arith_start"
    /\ m_ticks \in DateTimes
    /\ args \in [timeSpan : TimeSpans]
    /\ result = NoResult

Plus ==
    /\ pc = "arith_start"
    /\ result' = [op |-> "+", before |-> m_ticks, dt |-> operator_plus(m_ticks, args.timeSpan)]
    /\ pc' = "arith_done"
    /\ UNCHANGED <<args, m_ticks>>

Minus ==
    /\ pc = "arith_start"
    /\ result' = [op |-> "-", before |-> m_ticks, dt |-> operator_minus(m_ticks, args.timeSpan)]
    /\ pc' = "arith_done"
    /\ UNCHANGED <<args, m_ticks>>

\* operator+= returns *this: the result is the receiver after the assignment
PlusAssign ==
    /\ pc = "arith_start"
    /\ m_ticks' = operator_plus_assign(m_ticks, args.timeSpan)
    /\ result' = [op |-> "+=", before |-> m_ticks, dt |-> DateTime(m_ticks')]
    /\ pc' = "arith_done"
    /\ UNCHANGED args

MinusAssign ==
    /\ pc = "arith_start"
    /\ m_ticks' = operator_minus_assign(m_ticks, args.timeSpan)
    /\ result' = [op |-> "-=", before |-> m_ticks, dt |-> DateTime(m_ticks')]
    /\ pc' = "arith_done"
    /\ UNCHANGED args

NextArith == Plus \/ Minus \/ PlusAssign \/ MinusAssign

SpecArith == InitArith /\ [][NextArith]_vars

\* the sum or difference as an unbounded integer
ExactResult ==
    IF result.op \in {"+", "+="}
    THEN TAdd(result.before, args.timeSpan)
    ELSE TSub(result.before, args.timeSpan)

\* negative, or at or beyond the tick count of year 10000
OutOfRange(v) == TNegative(v) \/ ~TLess(v, Days(m_daysTo10000))

\* C4 as stated: whenever dt.totalTicks() + ts.totalTicks() (for + and +=) or
\* dt.totalTicks() - ts.totalTicks() (for - and -=) is negative or at or beyond
\* the tick count of year 10000, the resulting DateTime is the null instant.
C4_CollapsesToNull ==
    (pc = "arith_done" /\ OutOfRange(ExactResult)) => totalTicks(result.dt) = Zero

\* C4 amended: the operators make no range check.  The resulting tick count is
\* the sum (or difference) modulo 2^64: a negative one wraps, one at or beyond
\* year 10000 is kept, and the result is null only when that value is 0.
C4_WrapsModulo64 ==
    pc = "arith_done"
        => LET exact == ExactResult
           IN  /\ TNegative(exact) => totalTicks(result.dt) = TAdd(exact, Two64)
               /\ (~TNegative(exact) /\ TLess(exact, Two64)) => totalTicks(result.dt) = exact
               /\ ~TLess(exact, Two64) => totalTicks(result.dt) = TSub(exact, Two64)
               /\ (result.op \in {"+=", "-="} => m_ticks = result.dt)
               /\ (result.op \in {"+", "-"} => m_ticks = result.before)

\* a day has been taken from the first instants, and the result has wrapped
C4_Witness ==
    /\ pc = "arith_done"
    /\ result.op = "-"
    /\ result.before = DateTime(Tick(0, 0, 1))
    /\ args.timeSpan = TimeSpan_fromDays(1)
    /\ OutOfRange(ExactResult)
    /\ ~isNull(result.dt)

(***************************************************************************)
(* stringconversion.h.  A string is a sequence of characters; positions    *)
(* are counted from 0 as in the source, and npos is -1.                    *)
(***************************************************************************)
StringsUpTo(alphabet, n) == UNION {[1..k -> alphabet] : k \in 0..n}

npos == -1

\* str.substr(pos, count)
substr(str, pos, count) == SubSeq(str, pos + 1, pos + count)

\* str.find(what, pos): the first position at or after pos where what begins
find(str, what, pos) ==
    LET hits == {p \in pos..(Len(str) - Len(what)) : substr(str, p, Len(what)) = what}
    IN  IF hits = {} THEN npos ELSE CHOOSE p \in hits : \A q \in hits : p <= q

\* the loop of startsWith, both iterators i characters in
RECURSIVE startsWithLoop(_, _, _)
startsWithLoop(str, phrase, i) ==
    IF i = Len(str) THEN FALSE
    ELSE IF i = Len(phrase) THEN TRUE
    ELSE IF str[i + 1] # phrase[i + 1] THEN FALSE
    ELSE startsWithLoop(str, phrase, i + 1)

startsWith(str, phrase) ==
    IF Len(str) < Len(phrase) THEN FALSE ELSE startsWithLoop(str, phrase, 0)

\* the first loop of joinStrings: the number of strings that are joined
RECURSIVE joinEntries(_, _, _)
joinEntries(strings, omitEmpty, i) ==
    IF i > Len(strings) THEN 0
    ELSE (IF ~omitEmpty \/ strings[i] # <<>> THEN 1 ELSE 0)
         + joinEntries(strings, omitEmpty, i + 1)

\* the second loop of joinStrings, from the i-th string on
RECURSIVE joinLoop(_, _, _, _, _, _, _)
joinLoop(strings, delimiter, omitEmpty, leftClosure, rightClosure, i, res) ==
    IF i > Len(strings) THEN res
    ELSE IF ~omitEmpty \/ strings[i] # <<>>
         THEN joinLoop(strings, delimiter, omitEmpty, leftClosure, rightClosure, i + 1,
                       (IF res # <<>> THEN res \o delimiter ELSE res)
                           \o leftClosure \o strings[i] \o rightClosure)
         ELSE joinLoop(strings, delimiter, omitEmpty, leftClosure, rightClosure, i + 1, res)

joinStrings(strings, delimiter, omitEmpty, leftClosure, rightClosure) ==
    IF Len(strings) # 0 /\ joinEntries(strings, omitEmpty, 1) # 0
    THEN joinLoop(strings, delimiter, omitEmpty, leftClosure, rightClosure, 1, <<>>)
    ELSE <<>>

EmptyPartsTreat == {"Keep", "Omit", "Merge"}

\* the loop of splitString from position i on; maxParts is already decremented
RECURSIVE splitLoop(_, _, _, _, _, _, _)
splitLoop(string, delimiter, emptyPartsRole, maxParts, i, res, merge) ==
    IF ~(i < Len(string)) THEN res
    ELSE
      LET found == find(string, delimiter, i)
          atLimit == ~merge /\ maxParts >= 0 /\ Len(res) = maxParts
      IN  IF atLimit /\ found = i /\ emptyPartsRole = "Merge" /\ res # <<>>
          THEN \* merge = true; continue
               splitLoop(string, delimiter, emptyPartsRole, maxParts,
                         found + Len(delimiter), res, TRUE)
          ELSE
            LET limited == IF atLimit THEN npos ELSE found
                delimPos == IF limited = npos THEN Len(string) ELSE limited
                part == substr(string, i, delimPos - i)
                next == delimPos + Len(delimiter)
            IN  IF emptyPartsRole = "Keep" \/ i # delimPos
                THEN IF merge
                     THEN splitLoop(string, delimiter, emptyPartsRole, maxParts, next,
                                    [res EXCEPT ![Len(res)] = @ \o delimiter \o part], FALSE)
                     ELSE splitLoop(string, delimiter, emptyPartsRole, maxParts, next,
                                    Append(res, part), merge)
                ELSE IF emptyPartsRole = "Merge" /\ res # <<>>
                     THEN splitLoop(string, delimiter, emptyPartsRole, maxParts, next, res, TRUE)
                     ELSE splitLoop(string, delimiter, emptyPartsRole, maxParts, next, res, merge)

\* splitString without the decrement of maxParts
splitString_noDecrement(string, delimiter, emptyPartsRole, maxParts) ==
    splitLoop(string, delimiter, emptyPartsRole, maxParts, 0, <<>>, FALSE)

splitString(string, delimiter, emptyPartsRole, maxParts) ==
    splitLoop(string, delimiter, emptyPartsRole, maxParts - 1, 0, <<>>, FALSE)

(***************************************************************************)
(* startsWith.                                                             *)
(***************************************************************************)
InitStartsWith ==
    /\ pc = "startsWith_start"
    /\ args \in [str : StringsUpTo({"a", "b"}, MaxStrLen),
                 phrase : StringsUpTo({"a", "b"}, MaxStrLen)]
    /\ m_ticks = NullDateTime
    /\ result = NoResult

StartsWith ==
    /\ pc = "startsWith_start"
    /\ result' = [op |-> "startsWith", value |-> startsWith(args.str, args.phrase)]
    /\ pc' = "startsWith_done"
    /\ UNCHANGED <<args, m_ticks>>

NextStartsWith == StartsWith

SpecStartsWith == InitStartsWith /\ [][NextStartsWith]_vars

\* C7: startsWith(str, phrase) is true exactly when phrase is no longer than
\* str and the first phrase.size() characters of str are phrase, which
\* includes str = phrase and the empty phrase.
C7_StartsWith ==
    pc = "startsWith_done"
        => (result.value <=> (/\ Len(args.phrase) <= Len(args.str)
                              /\ SubSeq(args.str, 1, Len(args.phrase)) = args.phrase))

(***************************************************************************)
(* joinStrings.                                                            *)
(***************************************************************************)
InitJoin ==
    /\ pc = "join_start"
    /\ args \in [strings : StringsUpTo({<<>>, <<"a">>, <<"a", "b">>}, MaxStrings),
                 delimiter : {<<>>, <<",">>},
                 omitEmpty : BOOLEAN,
                 leftClosure : {<<>>, <<"[">>},
                 rightClosure : {<<>>, <<"]">>}]
    /\ m_ticks = NullDateTime
    /\ result = NoResult

JoinStrings ==
    /\ pc = "join_start"
    /\ result' = [op |-> "joinStrings",
                  value |-> joinStrings(args.strings, args.delimiter, args.omitEmpty,
                                        args.leftClosure, args.rightClosure)]
    /\ pc' = "join_done"
    /\ UNCHANGED <<args, m_ticks>>

NextJoin == JoinStrings

SpecJoin == InitJoin /\ [][NextJoin]_vars

\* the strings that are joined: all of them, or the non-empty ones
Included(strings, omitEmpty) == SelectSeq(strings, LAMBDA x : ~omitEmpty \/ x # <<>>)

\* every included string between the closures, one delimiter between two
RECURSIVE Joined(_, _, _, _)
Joined(included, delimiter, leftClosure, rightClosure) ==
    IF included = <<>> THEN <<>>
    ELSE leftClosure \o Head(included) \o rightClosure
         \o (IF Tail(included) = <<>> THEN <<>>
             ELSE delimiter \o Joined(Tail(included), delimiter, leftClosure, rightClosure))

\* C8: joinStrings returns, for the included strings (all, or the non-empty
\* ones when omitEmpty), leftClosure + s + rightClosure for each in order with
\* exactly one delimiter between two consecutive ones and none before the first
\* or after the last, also when leading included strings are empty.
C8_JoinStrings ==
    pc = "join_done"
        => result.value = Joined(Included(args.strings, args.omitEmpty), args.delimiter,
                                 args.leftClosure, args.rightClosure)

(***************************************************************************)
(* splitString.                                                            *)
(***************************************************************************)
InitSplit ==
    /\ pc = "split_start"
    /\ args \in [string : StringsUpTo({"a", ","}, MaxSplitLen),
                 delimiter : {<<",">>, <<",", ",">>},
                 emptyPartsRole : EmptyPartsTreat,
                 maxParts : (-2)..MaxParts]
    /\ m_ticks = NullDateTime
    /\ result = NoResult

SplitString ==
    /\ pc = "split_start"
    /\ result' = [op |-> "splitString",
                  parts |-> splitString(args.string, args.delimiter,
                                        args.emptyPartsRole, args.maxParts)]
    /\ pc' = "split_done"
    /\ UNCHANGED <<args, m_ticks>>

NextSplit == SplitString

SpecSplit == InitSplit /\ [][NextSplit]_vars

\* C9: for every string, non-empty delimiter and EmptyPartsTreat, a call with
\* maxParts >= 1 returns at most maxParts parts, and a call with maxParts <= 0
\* returns the parts that a call with no limit (the default, -1) returns.
C9_MaxParts ==
    pc = "split_done"
        => /\ args.maxParts >= 1 => Len(result.parts) <= args.maxParts
           /\ args.maxParts <= 0
                 => result.parts = splitString(args.string, args.delimiter,
                                               args.emptyPartsRole, -1)

\* a string of three parts has been cut to two
C9_Witness ==
    /\ pc = "split_done"
    /\ args.string = <<"a", ",", "a", ",", "a">>
    /\ args.delimiter = <<",">>
    /\ args.emptyPartsRole = "Keep"
    /\ args.maxParts = 2
    /\ result.parts = << <<"a">>, <<"a", ",", "a">> >>

====
